---- MODULE Spec2Model ----
(***************************************************************************)
(* Offline action queue of SyncProvider (contexts/SyncContext): the        *)
(* pending queue, the dead-letter queue, their persisted copies in         *)
(* idb-keyval, and the asynchronous operations addOfflineAction, syncNow,  *)
(* retryFailedAction and discardFailedAction.                              *)
(*                                                                         *)
(* Every `await` of the source is a suspension point and therefore the end *)
(* of one action of the model.  A function of the provider closes over the *)
(* React state (queue, failedQueue) of the render that created it; a call  *)
(* in flight keeps that captured value while the state moves on.  idb      *)
(* requests take effect in the order they are issued, so a get reads and a *)
(* set writes in the step that issues it.                                  *)
(***************************************************************************)
EXTENDS Integers, Sequences, FiniteSets, TLC

MAX_RETRIES == 3
QUEUE_KEY == "offline_action_queue"
FAILED_QUEUE_KEY == "offline_failed_queue"

\* Bounds of the model.
MaxActions == 2
MaxDrains == 2
MaxSubmits == 2
MaxRetryCalls == 1
MaxOverlaps == 1
MaxReloads == 1
MaxStoreFailures == 1

VARIABLES
    queue,          \* useState: pending actions
    failedQueue,    \* useState: dead-letter actions
    isSyncing,      \* useState
    isOnline,       \* useState, follows navigator.onLine
    syncProgress,   \* useState: <<>> is null, <<p>> a SyncProgress
    idb,            \* idb-keyval: key -> stored value or Undefined
    loader,         \* loadQueues call of the mount effect; history, kept
                    \* when an action is enqueued before the load completes:
                    \* the ids persisted at mount, the first id free at mount
    drains,         \* syncNow calls in flight
    retries,        \* retryFailedAction calls in flight
    submits,        \* handleActivitySubmit calls in flight
    nextId,         \* next value of crypto.randomUUID()
    toast,          \* the addToast calls of the latest step
    rejected,       \* operations whose promise has rejected
    succeeded,      \* history: ids whose executor has resolved
    discarded,      \* history: ids removed by a completed discardFailedAction
    fails,          \* history: failed attempts per id since enqueue or retry
    reinvoked,      \* history: ids whose executor was invoked after it had resolved
    deadLettered,   \* history: ids a drain moved to dead-letter and no retry took back
    invokedDiscarded, \* history: ids whose executor was invoked after their discard
    retryCalls,     \* history: number of retryFailedAction calls so far
    retried,        \* history: ids a retryFailedAction call has taken back
    invoked,        \* history: ids whose executor has been invoked
    skipped,        \* history: ids a drain passed without calling an executor
    midDrain,       \* history: ids enqueued while a drain was in progress
    retriedMidDrain, \* history: ids retried while a drain was in progress
    early,          \* history: ids enqueued since mount before loadQueues
                    \* had completed
    absent,         \* history: ids retryFailedAction did not find
    overlaps,       \* history: number of syncNow calls made while a drain was running
    reloads,        \* history: number of reloads of the page
    storeFailures,  \* history: number of idb-keyval writes that have failed
    showFailedModal \* useState of OfflineIndicator

state == <<queue, failedQueue, isSyncing, isOnline, syncProgress>>
procs == <<loader, drains, retries, submits>>
hist == <<succeeded, discarded, fails, reinvoked, deadLettered,
         invokedDiscarded, retryCalls, retried, invoked, skipped, midDrain,
         retriedMidDrain, early, absent>>
store == <<idb, storeFailures, rejected>>
vars == <<queue, failedQueue, isSyncing, isOnline, syncProgress, idb, loader,
          drains, retries, submits, nextId, toast, rejected, succeeded,
          discarded, fails, reinvoked, deadLettered, invokedDiscarded,
          retryCalls, retried, invoked, skipped, midDrain, retriedMidDrain,
          early, absent, overlaps, reloads, storeFailures, showFailedModal>>

ActionIds == 1..MaxActions
NoError == "undefined"
ErrorMessage == "error.message"
FailsCap == MAX_RETRIES + 2

\* case 'SUBMIT_ACTIVITY' | 'GRADE_ACTIVITY' | 'POST_NOTICE' of the switch
ExecutorTypes == {"SUBMIT_ACTIVITY", "GRADE_ACTIVITY", "POST_NOTICE"}
\* the type argument of a direct addOfflineAction call: one with an executor
\* and one the switch has no case for
CallTypes == {"GRADE_ACTIVITY", "UNKNOWN_TYPE"}

----------------------------------------------------------------------------
(* Values *)

Undefined == [defined |-> FALSE, value |-> <<>>]
Stored(v) == [defined |-> TRUE, value |-> v]

Ids(q) == {q[i].id : i \in DOMAIN q}
Occurrences(q, id) == Cardinality({i \in DOMAIN q : q[i].id = id})

\* mutant: the predicate of the filter inverted
FilterOut_KeepsOnly(q, actionId) == SelectSeq(q, LAMBDA a : a.id = actionId)

\* failedQueue.filter(a => a.id !== actionId)
FilterOut(q, actionId) == SelectSeq(q, LAMBDA a : a.id # actionId)

\* failedQueue.find(a => a.id === actionId), for an id that occurs in q
Find(q, actionId) ==
    q[CHOOSE i \in DOMAIN q :
        q[i].id = actionId /\ \A j \in 1..(i - 1) : q[j].id # actionId]

\* the payload of a caller of addOfflineAction other than handleActivitySubmit
Opaque(id) == [blob |-> id]

\* the arguments of handleActivitySubmit, the user of useAuth, and what
\* activityData holds after getDoc: {} or activitySnap.data()
ActivityIds == {"activity1", "activity2"}
Content == "content"
User == [id |-> "user.id", name |-> "user.name"]
ActivityData == {"{}", "activitySnap.data()"}

\* Which activities the user submits and what getDoc finds of them: any
\* when "anyActivity" is among the calls, else one activity, whose document
\* exists.
Activities(among) ==
    IF "anyActivity" \in among THEN ActivityIds ELSE {"activity1"}
Snapshots(among) ==
    IF "anyActivity" \in among THEN ActivityData
    ELSE {"activitySnap.data()"}

\* the payload handleActivitySubmit passes to addOfflineAction
SubmitPayload(activityId, content, user, activityData) ==
    [activityId |-> activityId, content |-> content,
     user |-> [id |-> user.id, name |-> user.name],
     activityData |-> activityData]

\* newAction of addOfflineAction(type, payload)
NewAction(id, type, payload) ==
    [id |-> id, type |-> type, payload |-> payload,
     retryCount |-> 0, lastError |-> NoError]

\* mutant: the ceiling compared with <=
CanRetry_AtCeiling(currentRetries) == currentRetries <= MAX_RETRIES

\* if (currentRetries < MAX_RETRIES)
CanRetry(currentRetries) == currentRetries < MAX_RETRIES

\* mutant: the failure is recorded without counting it
UpdatedAction_NotCounted(action) == [action EXCEPT !.lastError = ErrorMessage]

UpdatedAction(action) ==
    [action EXCEPT !.retryCount = action.retryCount + 1,
                   !.lastError = ErrorMessage]

\* mutant: the failure at the ceiling is counted too
FailedAction_Counted(action) ==
    [action EXCEPT !.retryCount = action.retryCount + 1,
                   !.lastError = ErrorMessage]

FailedAction(action) == [action EXCEPT !.lastError = ErrorMessage]

\* mutant: the count is reset and the error message is kept
ResetAction_KeepsError(actionToRetry) ==
    [actionToRetry EXCEPT !.retryCount = 0]

ResetAction(actionToRetry) ==
    [actionToRetry EXCEPT !.retryCount = 0, !.lastError = NoError]

\* [...failedQueue, ...newFailed] with the failedQueue of the closure
UpdatedFailedQueue(closureFailed, newFailed) == closureFailed \o newFailed

IdleDrain ==
    [pc |-> "idle", stored |-> Undefined, index |-> 0,
     remainingQueue |-> <<>>, newFailed |-> <<>>, successCount |-> 0,
     failedQueue |-> <<>>, trigger |-> "none", results |-> <<>>,
     during |-> {}]

IdleRetry == [pc |-> "idle", newFailedQueue |-> <<>>, failedQueue |-> <<>>]
IdleSubmit == [pc |-> "idle", queue |-> <<>>, activityId |-> ""]

Batch(d) == drains[d].stored.value
Running(d) == drains[d].pc # "idle"
NoDrain == \A d \in 1..MaxDrains : ~Running(d)
\* between setIsSyncing(true) and the end of the call
Active(d) == drains[d].pc \in {"exec", "setQueue", "setFailed"}
Draining == \E d \in 1..MaxDrains : Active(d)
Quiescent ==
    /\ loader.pc = "done"
    /\ NoDrain
    /\ \A r \in 1..MaxRetryCalls : retries[r].pc = "idle"
    /\ \A s \in 1..MaxSubmits : submits[s].pc = "idle"

NoOther ==
    /\ loader.pc = "done"
    /\ \A r \in 1..MaxRetryCalls : retries[r].pc = "idle"
    /\ \A s \in 1..MaxSubmits : submits[s].pc = "idle"

\* What the environment does.  during: the calls that may be made while a
\* drain is running (syncNow at most MaxOverlaps times); among: the calls that
\* may be made while a call other than a drain is in flight, "setFails" when
\* a write to idb-keyval may fail, "retryAbsent" when retryFailedAction
\* may be called with an id that is not in failedQueue, "retryAgain" when
\* one more retry may be made, "getDocFails" when the getDoc of
\* handleActivitySubmit may reject, and "anyActivity" when the user submits
\* more than one activity.  A call in neither set is made only
\* when nothing is in flight.
Syncs == {"syncNow", "online"}
Calls == Syncs \cup {"offline", "submit", "enqueue", "retry", "discard",
                     "reload", "setFails", "retryAbsent", "retryAgain",
                     "getDocFails", "anyActivity"}
MayOverlap(during) ==
    NoDrain \/ ("syncNow" \in during /\ overlaps < MaxOverlaps)
MaySync(call, during, among) ==
    /\ NoDrain \/ (call \in during /\ overlaps < MaxOverlaps)
    /\ call \in among \/ NoOther
MayCall(call, during, among) ==
    /\ call \in during \/ NoDrain
    /\ call \in among \/ NoOther

FreeDrain(d) ==
    /\ ~Running(d)
    /\ \A e \in 1..(d - 1) : Running(e)

Bump(n) == IF n < FailsCap THEN n + 1 ELSE n

\* How many calls of retryFailedAction that find their action are made: one
\* more when "retryAgain" is among the calls.
RetryBudget(among) ==
    IF "retryAgain" \in among THEN MaxRetryCalls + 1 ELSE MaxRetryCalls

\* How an idb-keyval write may settle: TRUE the promise of set() resolves,
\* FALSE it rejects and nothing is stored.
Outcomes(among) ==
    IF "setFails" \in among /\ storeFailures < MaxStoreFailures
    THEN BOOLEAN ELSE {TRUE}

\* await set(key, value)
Write(key, value, ok) ==
    /\ idb' = IF ok THEN [idb EXCEPT ![key] = Stored(value)] ELSE idb
    /\ storeFailures' = IF ok THEN storeFailures ELSE storeFailures + 1

\* mutant: the rejection of set() is swallowed
Settle_Swallowed(op, ok) == rejected' = rejected

\* No operation catches the rejection of an awaited set(): the promise of the
\* operation rejects with it.
Settle(op, ok) == rejected' = IF ok THEN rejected ELSE rejected \cup {op}

----------------------------------------------------------------------------
Init ==
    /\ queue = <<>>
    /\ failedQueue = <<>>
    /\ isSyncing = FALSE
    /\ isOnline \in BOOLEAN
    /\ syncProgress = <<>>
    /\ idb = [k \in {QUEUE_KEY, FAILED_QUEUE_KEY} |-> Undefined]
    /\ loader = [pc |-> "getQueue", stored |-> Undefined, atMount |-> {},
                 firstId |-> 1]
    /\ drains = [d \in 1..MaxDrains |-> IdleDrain]
    /\ retries = [r \in 1..MaxRetryCalls |-> IdleRetry]
    /\ submits = [s \in 1..MaxSubmits |-> IdleSubmit]
    /\ nextId = 1
    /\ toast = {}
    /\ rejected = {}
    /\ succeeded = {}
    /\ discarded = {}
    /\ fails = [i \in ActionIds |-> 0]
    /\ reinvoked = {}
    /\ deadLettered = {}
    /\ invokedDiscarded = {}
    /\ retryCalls = 0
    /\ retried = {}
    /\ invoked = {}
    /\ skipped = {}
    /\ midDrain = {}
    /\ retriedMidDrain = {}
    /\ early = {}
    /\ absent = {}
    /\ overlaps = 0
    /\ reloads = 0
    /\ storeFailures = 0
    /\ showFailedModal = FALSE

----------------------------------------------------------------------------
(* 1. Load Queues on Mount *)

\* resumes after get(QUEUE_KEY), issued at mount, and issues get(FAILED_QUEUE_KEY)
LoadQueue ==
    /\ loader.pc = "getQueue"
    /\ queue' = IF loader.stored.defined THEN loader.stored.value ELSE queue
    /\ loader' = [loader EXCEPT !.pc = "getFailed",
                                !.stored = idb[FAILED_QUEUE_KEY]]
    /\ UNCHANGED showFailedModal
    /\ toast' = {}
    /\ UNCHANGED <<failedQueue, isSyncing, isOnline, syncProgress, store,
                   drains, retries, submits, nextId, hist, overlaps, reloads>>

LoadFailed ==
    /\ loader.pc = "getFailed"
    /\ failedQueue' = IF loader.stored.defined THEN loader.stored.value
                      ELSE failedQueue
    /\ loader' = IF early = {}
                 THEN [pc |-> "done", stored |-> Undefined, atMount |-> {},
                       firstId |-> 0]
                 ELSE [loader EXCEPT !.pc = "done", !.stored = Undefined]
    /\ UNCHANGED showFailedModal
    /\ toast' = {}
    /\ UNCHANGED <<queue, isSyncing, isOnline, syncProgress, store,
                   drains, retries, submits, nextId, hist, overlaps, reloads>>

\* The page is reloaded: the calls in flight are gone, the provider is
\* constructed again and its mount effect issues get(QUEUE_KEY); idb-keyval
\* keeps what was stored.
Reload(during, among) ==
    /\ MayCall("reload", during, among)
    /\ reloads < MaxReloads
    /\ reloads' = reloads + 1
    /\ queue' = <<>>
    /\ failedQueue' = <<>>
    /\ isSyncing' = FALSE
    /\ syncProgress' = <<>>
    /\ loader' = [pc |-> "getQueue", stored |-> idb[QUEUE_KEY],
                  atMount |-> Ids(idb[QUEUE_KEY].value), firstId |-> nextId]
    /\ drains' = [d \in 1..MaxDrains |-> IdleDrain]
    /\ retries' = [r \in 1..MaxRetryCalls |-> IdleRetry]
    /\ submits' = [s \in 1..MaxSubmits |-> IdleSubmit]
    /\ early' = {}
    /\ showFailedModal' = FALSE
    /\ toast' = {}
    /\ UNCHANGED <<isOnline, store, nextId, succeeded, discarded, fails,
                   reinvoked, deadLettered, invokedDiscarded, retryCalls,
                   retried, invoked, skipped, midDrain, retriedMidDrain,
                   absent, overlaps>>

----------------------------------------------------------------------------
(* 4. Process Queue (Sync) *)

\* The executor of `action` is called; history only.
Invoke(action, done) ==
    /\ invoked' = invoked \cup {action.id}
    /\ reinvoked' = IF action.id \in done THEN reinvoked \cup {action.id}
                    ELSE reinvoked
    /\ invokedDiscarded' = IF action.id \in discarded
                           THEN invokedDiscarded \cup {action.id}
                           ELSE invokedDiscarded

\* mutant: the batch is the pending queue of the React state
SyncNowCall_FromState(d, closureFailed, trigger) ==
    /\ FreeDrain(d)
    /\ drains' = [drains EXCEPT ![d] =
                    [IdleDrain EXCEPT !.pc = "get",
                                      !.stored = Stored(queue),
                                      !.failedQueue = closureFailed,
                                      !.trigger = trigger]]
    /\ overlaps' = IF NoDrain THEN overlaps ELSE overlaps + 1

\* syncNow() up to its first await: get(QUEUE_KEY) is issued.  closureFailed
\* is the failedQueue of the render whose syncNow is called.
SyncNowCall(d, closureFailed, trigger) ==
    /\ FreeDrain(d)
    /\ drains' = [drains EXCEPT ![d] =
                    [IdleDrain EXCEPT !.pc = "get",
                                      !.stored = idb[QUEUE_KEY],
                                      !.failedQueue = closureFailed,
                                      !.trigger = trigger]]
    /\ overlaps' = IF NoDrain THEN overlaps ELSE overlaps + 1

\* mutant: no early return, the empty batch goes through "Update Queues"
SyncNowEmpty_NoReturn(d) ==
    /\ drains[d].pc = "get"
    /\ ~drains[d].stored.defined \/ Len(Batch(d)) = 0
    /\ drains' = [drains EXCEPT ![d] = IdleDrain]
    /\ queue' = <<>>
    /\ idb' = [idb EXCEPT ![QUEUE_KEY] = Stored(<<>>)]
    /\ UNCHANGED showFailedModal
    /\ toast' = {}
    /\ UNCHANGED <<failedQueue, isSyncing, isOnline, syncProgress,
                   storeFailures, rejected, loader, retries, submits, nextId,
                   hist, overlaps, reloads>>

\* if (!storedQueue || storedQueue.length === 0) return;
SyncNowEmpty(d) ==
    /\ drains[d].pc = "get"
    /\ ~drains[d].stored.defined \/ Len(Batch(d)) = 0
    /\ drains' = [drains EXCEPT ![d] = IdleDrain]
    /\ UNCHANGED showFailedModal
    /\ toast' = {}
    /\ UNCHANGED <<state, store, loader, retries, submits, nextId, hist,
                   overlaps, reloads>>

\* The iterations that follow position dr.index and await nothing: the switch
\* has no case and no default for the type of the action, so the try block
\* falls through to successCount++.
RECURSIVE Skip(_)
Skip(dr) ==
    IF /\ dr.index < Len(dr.stored.value)
       /\ dr.stored.value[dr.index + 1].type \notin ExecutorTypes
    THEN Skip([dr EXCEPT !.index = dr.index + 1,
                         !.successCount = dr.successCount + 1,
                         !.results = Append(dr.results, TRUE)])
    ELSE dr

\* The loop from the end of iteration dr.index on: either up to the next
\* awaited executor call, or through "Update Queues" up to await set(QUEUE_KEY).
Continue(d, dr, done, among) ==
    LET sk == Skip(dr)
        batch == sk.stored.value
    IN  /\ skipped' = skipped \cup {batch[i].id : i \in (dr.index + 1)..sk.index}
        /\ IF sk.index < Len(batch)
           THEN /\ drains' = [drains EXCEPT ![d] =
                                [sk EXCEPT !.pc = "exec", !.index = sk.index + 1]]
                /\ syncProgress' = <<[current |-> sk.index + 1,
                                      total |-> Len(batch)]>>
                /\ Invoke(batch[sk.index + 1], done)
                /\ UNCHANGED <<queue, store>>
           ELSE \E ok \in Outcomes(among) :
                /\ drains' = [drains EXCEPT ![d] =
                                IF ok THEN [sk EXCEPT !.pc = "setQueue"]
                                ELSE IdleDrain]
                /\ syncProgress' = <<[current |-> sk.index,
                                      total |-> Len(batch)]>>
                /\ queue' = sk.remainingQueue
                /\ Write(QUEUE_KEY, sk.remainingQueue, ok)
                /\ Settle("syncNow", ok)
                /\ UNCHANGED <<invoked, reinvoked, invokedDiscarded>>

\* get(QUEUE_KEY) has resolved with a batch: setIsSyncing(true),
\* setSyncProgress, and the loop from its first iteration
SyncNowBegin(d, among) ==
    /\ drains[d].pc = "get"
    /\ drains[d].stored.defined /\ Len(Batch(d)) > 0
    /\ isSyncing' = TRUE
    /\ Continue(d, drains[d], succeeded, among)
    /\ UNCHANGED showFailedModal
    /\ toast' = {}
    /\ UNCHANGED <<failedQueue, isOnline, loader, retries, submits, nextId,
                   succeeded, discarded, fails, deadLettered, retryCalls,
                   retried, midDrain, retriedMidDrain, early, absent,
                   overlaps, reloads>>

\* the awaited executor resolves: successCount++
ExecutorResolves(d, among) ==
    /\ drains[d].pc = "exec"
    /\ LET action == Batch(d)[drains[d].index]
           dr == [drains[d] EXCEPT !.successCount = drains[d].successCount + 1,
                                   !.results = Append(drains[d].results, TRUE)]
       IN  /\ succeeded' = succeeded \cup {action.id}
           /\ Continue(d, dr, succeeded', among)
    /\ UNCHANGED showFailedModal
    /\ toast' = {}
    /\ UNCHANGED <<failedQueue, isSyncing, isOnline, loader, retries,
                   submits, nextId, discarded, fails, deadLettered, retryCalls,
                   retried, midDrain, retriedMidDrain, early, absent,
                   overlaps, reloads>>

\* mutant: a failure below the ceiling is put in front of the earlier ones
Caught_InFront(dr, action) ==
    IF CanRetry(action.retryCount)
    THEN [dr EXCEPT !.remainingQueue =
                        <<UpdatedAction(action)>> \o dr.remainingQueue,
                    !.results = Append(dr.results, FALSE)]
    ELSE [dr EXCEPT !.newFailed = Append(dr.newFailed, FailedAction(action)),
                    !.results = Append(dr.results, FALSE)]

\* the catch block for `action`
Caught(dr, action) ==
    IF CanRetry(action.retryCount)
    THEN [dr EXCEPT !.remainingQueue =
                        Append(dr.remainingQueue, UpdatedAction(action)),
                    !.results = Append(dr.results, FALSE)]
    ELSE [dr EXCEPT !.newFailed = Append(dr.newFailed, FailedAction(action)),
                    !.results = Append(dr.results, FALSE)]

\* mutant: the first failure ends the loop
ExecutorRejects_Breaks(d, among) ==
    /\ drains[d].pc = "exec"
    /\ LET action == Batch(d)[drains[d].index]
           dr == [Caught(drains[d], action) EXCEPT !.index = Len(Batch(d))]
       IN  /\ fails' = [fails EXCEPT ![action.id] = Bump(fails[action.id])]
           /\ deadLettered' = IF CanRetry(action.retryCount) THEN deadLettered
                              ELSE deadLettered \cup {action.id}
           /\ Continue(d, dr, succeeded, among)
    /\ UNCHANGED showFailedModal
    /\ toast' = {}
    /\ UNCHANGED <<failedQueue, isSyncing, isOnline, loader, retries,
                   submits, nextId, succeeded, discarded, retryCalls, retried,
                   midDrain, retriedMidDrain, early, absent, overlaps,
                   reloads>>

\* the awaited executor rejects
ExecutorRejects(d, among) ==
    /\ drains[d].pc = "exec"
    /\ LET action == Batch(d)[drains[d].index]
       IN  /\ fails' = [fails EXCEPT ![action.id] = Bump(fails[action.id])]
           /\ deadLettered' = IF CanRetry(action.retryCount) THEN deadLettered
                              ELSE deadLettered \cup {action.id}
           /\ Continue(d, Caught(drains[d], action), succeeded, among)
    /\ UNCHANGED showFailedModal
    /\ toast' = {}
    /\ UNCHANGED <<failedQueue, isSyncing, isOnline, loader, retries,
                   submits, nextId, succeeded, discarded, retryCalls, retried,
                   midDrain, retriedMidDrain, early, absent, overlaps,
                   reloads>>

\* setIsSyncing(false); setSyncProgress(null); the success toast; return
Finish(d) ==
    /\ isSyncing' = FALSE
    /\ syncProgress' = <<>>
    /\ drains' = [drains EXCEPT ![d] = IdleDrain]

\* resumes after set(QUEUE_KEY, remainingQueue) with nothing dead-lettered
AfterSetQueueDone(d) ==
    /\ drains[d].pc = "setQueue"
    /\ Len(drains[d].newFailed) = 0
    /\ Finish(d)
    /\ UNCHANGED showFailedModal
    /\ toast' = IF drains[d].successCount > 0 THEN {"synced"} ELSE {}
    /\ UNCHANGED <<queue, failedQueue, isOnline, store, loader, retries,
                   submits, nextId, hist, overlaps, reloads>>

\* resumes after set(QUEUE_KEY, remainingQueue): if (newFailed.length > 0) ...
AfterSetQueueFailed(d, among) ==
    /\ drains[d].pc = "setQueue"
    /\ Len(drains[d].newFailed) > 0
    /\ \E ok \in Outcomes(among) :
          LET updatedFailedQueue ==
                  UpdatedFailedQueue(drains[d].failedQueue, drains[d].newFailed)
          IN  /\ failedQueue' = updatedFailedQueue
              /\ Write(FAILED_QUEUE_KEY, updatedFailedQueue, ok)
              /\ Settle("syncNow", ok)
              /\ drains' = [drains EXCEPT ![d] =
                              IF ok THEN [drains[d] EXCEPT !.pc = "setFailed"]
                              ELSE IdleDrain]
    /\ UNCHANGED showFailedModal
    /\ toast' = {}
    /\ UNCHANGED <<queue, isSyncing, isOnline, syncProgress, loader, retries,
                   submits, nextId, hist, overlaps, reloads>>

\* resumes after set(FAILED_QUEUE_KEY, updatedFailedQueue): the error toast
AfterSetFailed(d) ==
    /\ drains[d].pc = "setFailed"
    /\ Finish(d)
    /\ UNCHANGED showFailedModal
    /\ toast' = {"failed"} \cup
                (IF drains[d].successCount > 0 THEN {"synced"} ELSE {})
    /\ UNCHANGED <<queue, failedQueue, isOnline, store, loader, retries,
                   submits, nextId, hist, overlaps, reloads>>

\* syncNow of the current render, called by a consumer of the context
ManualSyncNow(d, during, among) ==
    /\ MaySync("syncNow", during, among)
    /\ SyncNowCall(d, failedQueue, "manual")
    /\ UNCHANGED showFailedModal
    /\ toast' = {}
    /\ UNCHANGED <<state, store, loader, retries, submits, nextId, hist,
                   reloads>>

----------------------------------------------------------------------------
(* 2. Monitor Online Status: the listeners of the mount effect (deps []),   *)
(* which call the syncNow of the first render, whose failedQueue is [].    *)

\* mutant: the listener records the transition and starts no drain
handleOnline_NoSync(d, during, among) ==
    /\ MaySync("online", during, among)
    /\ ~isOnline
    /\ isOnline' = TRUE
    /\ UNCHANGED showFailedModal
    /\ toast' = {}
    /\ UNCHANGED <<queue, failedQueue, isSyncing, syncProgress, store, procs,
                   nextId, hist, overlaps, reloads>>

handleOnline(d, during, among) ==
    /\ MaySync("online", during, among)
    /\ ~isOnline
    /\ isOnline' = TRUE
    /\ SyncNowCall(d, <<>>, "online")
    /\ UNCHANGED showFailedModal
    /\ toast' = {}
    /\ UNCHANGED <<queue, failedQueue, isSyncing, syncProgress, store, loader,
                   retries, submits, nextId, hist, reloads>>

handleOffline(during, among) ==
    /\ MayCall("offline", during, among)
    /\ isOnline
    /\ isOnline' = FALSE
    /\ UNCHANGED showFailedModal
    /\ toast' = {}
    /\ UNCHANGED <<queue, failedQueue, isSyncing, syncProgress, store, procs,
                   nextId, hist, overlaps, reloads>>

----------------------------------------------------------------------------
(* 3. Add Action to Queue *)

\* addOfflineAction(type, payload) of the render whose queue is closureQueue,
\* up to await set(QUEUE_KEY, updatedQueue)
Enqueue(closureQueue, type, payload, ok) ==
    /\ LET updatedQueue ==
               Append(closureQueue, NewAction(nextId, type, payload))
       IN  /\ queue' = updatedQueue
           /\ Write(QUEUE_KEY, updatedQueue, ok)
    /\ Settle("addOfflineAction", ok)
    /\ nextId' = nextId + 1
    /\ drains' = [d \in 1..MaxDrains |->
                    IF drains[d].pc = "exec"
                    THEN [drains[d] EXCEPT !.during = @ \cup {nextId}]
                    ELSE drains[d]]
    /\ midDrain' = IF Draining THEN midDrain \cup {nextId} ELSE midDrain
    /\ early' = IF loader.pc # "done" THEN early \cup {nextId} ELSE early
    /\ UNCHANGED <<succeeded, discarded, fails, reinvoked, deadLettered,
                   invokedDiscarded, retryCalls, retried, invoked, skipped,
                   retriedMidDrain, absent>>

\* ids are left for a call to use
IdsLeft ==
    nextId + Cardinality({t \in 1..MaxSubmits : submits[t].pc # "idle"})
        <= MaxActions

\* addOfflineAction of the current render, called by a consumer of the context
EnqueueCall(type, during, among) ==
    /\ MayCall("enqueue", during, among)
    /\ IdsLeft
    /\ \E ok \in Outcomes(among) : Enqueue(queue, type, Opaque(nextId), ok)
    /\ UNCHANGED showFailedModal
    /\ toast' = {}
    /\ UNCHANGED <<failedQueue, isSyncing, isOnline, syncProgress, loader,
                   retries, submits, overlaps, reloads>>

\* handleActivitySubmit of useStudentContent, offline, up to await getDoc: the
\* call holds the addOfflineAction of the current render, which closes over
\* its queue.
handleActivitySubmit(s, activityId, during, among) ==
    /\ MayCall("submit", during, among)
    /\ ~isOnline
    /\ submits[s].pc = "idle"
    /\ \A t \in 1..(s - 1) : submits[t].pc # "idle"
    /\ IdsLeft
    /\ submits' = [submits EXCEPT ![s] = [pc |-> "getDoc", queue |-> queue,
                                          activityId |-> activityId]]
    /\ UNCHANGED showFailedModal
    /\ toast' = {}
    /\ UNCHANGED <<state, store, loader, drains, retries, nextId, hist,
                   overlaps, reloads>>

\* How the getDoc of handleActivitySubmit may settle: TRUE its promise
\* resolves, FALSE it rejects, as it does when the runtime is offline and the
\* document is not in the local cache.
GetDocOutcomes(among) ==
    IF "getDocFails" \in among THEN BOOLEAN ELSE {TRUE}

\* getDoc has rejected: the catch of handleActivitySubmit
GetDocRejects ==
    /\ toast' = {"saveError"}
    /\ UNCHANGED <<queue, store, drains, nextId, hist>>

\* getDoc has settled.  Resolved: addOfflineAction('SUBMIT_ACTIVITY', ...) up
\* to await set, then the toast of handleActivitySubmit (of its catch when
\* set rejects).
addOfflineAction(s, among) ==
    /\ submits[s].pc = "getDoc"
    /\ \E resolved \in GetDocOutcomes(among) :
          IF resolved
          THEN \E ok \in Outcomes(among), activityData \in Snapshots(among) :
                  /\ Enqueue(submits[s].queue, "SUBMIT_ACTIVITY",
                             SubmitPayload(submits[s].activityId, Content,
                                           User, activityData), ok)
                  /\ toast' = IF ok THEN {"saved"} ELSE {"saveError"}
          ELSE GetDocRejects
    /\ submits' = [submits EXCEPT ![s] = IdleSubmit]
    /\ UNCHANGED showFailedModal
    /\ UNCHANGED <<failedQueue, isSyncing, isOnline, syncProgress, loader,
                   retries, overlaps, reloads>>

----------------------------------------------------------------------------
(* retryFailedAction and discardFailedAction, called from the current render *)

\* mutant: the action is not looked up and whatever was found is re-queued
RetryAbsent_Requeues(actionId, among) ==
    /\ "retryAbsent" \in among
    /\ actionId \notin absent
    /\ absent' = absent \cup {actionId}
    /\ queue' = Append(queue, NewAction(actionId, "GRADE_ACTIVITY",
                                        Opaque(actionId)))
    /\ idb' = [idb EXCEPT ![QUEUE_KEY] = Stored(queue')]
    /\ UNCHANGED showFailedModal
    /\ toast' = {}
    /\ UNCHANGED <<failedQueue, isSyncing, isOnline, syncProgress,
                   storeFailures, rejected, procs, nextId, succeeded,
                   discarded, fails, reinvoked, deadLettered, invokedDiscarded,
                   retryCalls, retried, invoked, skipped, midDrain,
                   retriedMidDrain, early, overlaps, reloads>>

\* if (!actionToRetry) return;
RetryAbsent(actionId, among) ==
    /\ "retryAbsent" \in among
    /\ actionId \notin absent
    /\ absent' = absent \cup {actionId}
    /\ UNCHANGED showFailedModal
    /\ toast' = {}
    /\ UNCHANGED <<state, store, procs, nextId, succeeded, discarded, fails,
                   reinvoked, deadLettered, invokedDiscarded, retryCalls,
                   retried, invoked, skipped, midDrain, retriedMidDrain, early,
                   overlaps, reloads>>

\* the lookup of actionId, and when it is found the call up to
\* await set(QUEUE_KEY, newQueue)
retryFailedAction(r, actionId, during, among) ==
    /\ MayCall("retry", during, among)
    /\ IF actionId \in Ids(failedQueue)
       THEN
           /\ retries[r].pc = "idle"
           /\ retryCalls < RetryBudget(among)
           /\ \E ok \in Outcomes(among) :
                 LET resetAction == ResetAction(Find(failedQueue, actionId))
                     newQueue == Append(queue, resetAction)
                     newFailedQueue == FilterOut(failedQueue, actionId)
                 IN  /\ queue' = newQueue
                     /\ failedQueue' = newFailedQueue
                     /\ Write(QUEUE_KEY, newQueue, ok)
                     /\ Settle("retryFailedAction", ok)
                     /\ retries' = [retries EXCEPT ![r] =
                                      IF ok THEN [pc |-> "setQueue",
                                                  newFailedQueue |-> newFailedQueue,
                                                  failedQueue |-> failedQueue]
                                      ELSE IdleRetry]
           /\ fails' = [fails EXCEPT ![actionId] = 0]
           /\ deadLettered' = deadLettered \ {actionId}
           /\ retryCalls' = retryCalls + 1
           /\ retried' = retried \cup {actionId}
           /\ retriedMidDrain' = IF Draining THEN retriedMidDrain \cup {actionId}
                                 ELSE retriedMidDrain
           /\ UNCHANGED showFailedModal
           /\ toast' = {}
           /\ UNCHANGED <<isSyncing, isOnline, syncProgress, loader, drains,
                          submits, nextId, succeeded, discarded, reinvoked,
                          invokedDiscarded, invoked, skipped, midDrain, early,
                          absent, overlaps, reloads>>
       ELSE RetryAbsent(actionId, among)

\* resumes after set(QUEUE_KEY, newQueue): await set(FAILED_QUEUE_KEY, newFailedQueue)
RetrySetFailed(r, among) ==
    /\ retries[r].pc = "setQueue"
    /\ \E ok \in Outcomes(among) :
          /\ Write(FAILED_QUEUE_KEY, retries[r].newFailedQueue, ok)
          /\ Settle("retryFailedAction", ok)
          /\ retries' = [retries EXCEPT ![r] =
                           IF ok THEN [retries[r] EXCEPT !.pc = "setFailed"]
                           ELSE IdleRetry]
    /\ UNCHANGED showFailedModal
    /\ toast' = {}
    /\ UNCHANGED <<state, loader, drains, submits, nextId, hist, overlaps,
                   reloads>>

\* resumes after set(FAILED_QUEUE_KEY, ...): syncNow(); // Try immediately
RetrySyncNow(r, d, during) ==
    /\ MayOverlap(during)
    /\ retries[r].pc = "setFailed"
    /\ SyncNowCall(d, retries[r].failedQueue, "retry")
    /\ retries' = [retries EXCEPT ![r] = IdleRetry]
    /\ UNCHANGED showFailedModal
    /\ toast' = {}
    /\ UNCHANGED <<state, store, loader, submits, nextId, hist, reloads>>

discardFailedAction(actionId, during, among) ==
    /\ MayCall("discard", during, among)
    /\ \E ok \in Outcomes(among) :
          LET newFailedQueue == FilterOut(failedQueue, actionId)
          IN  /\ failedQueue' = newFailedQueue
              /\ Write(FAILED_QUEUE_KEY, newFailedQueue, ok)
              /\ Settle("discardFailedAction", ok)
              /\ discarded' = IF ok /\ actionId \in Ids(failedQueue)
                              THEN discarded \cup {actionId} ELSE discarded
    /\ UNCHANGED showFailedModal
    /\ toast' = {}
    /\ UNCHANGED <<queue, isSyncing, isOnline, syncProgress, procs, nextId,
                   succeeded, fails, reinvoked, deadLettered, invokedDiscarded,
                   retryCalls, retried, invoked, skipped, midDrain,
                   retriedMidDrain, early, absent, overlaps, reloads>>

----------------------------------------------------------------------------
(* OfflineIndicator *)

\* what a render of OfflineIndicator returns: the banner, and the Modal
\* element as <<isOpen>> where the returned tree has one, <<>> where it has
\* none. "other" is the back-online banner or null (showBackOnline is local
\* to the component and read by no other branch).
OfflineIndicator ==
    IF Len(failedQueue) > 0 /\ ~showFailedModal
    THEN [banner |-> "failed", modal |-> <<showFailedModal>>]
    ELSE IF ~isOnline THEN [banner |-> "offline", modal |-> <<>>]
    ELSE IF isSyncing THEN [banner |-> "syncing", modal |-> <<>>]
    ELSE [banner |-> "other", modal |-> <<>>]

\* the failure alert, whose onClick opens the list, is on screen
FailedAlertShown == OfflineIndicator.banner = "failed"

\* FailedItemsList, with a retry and a discard button per item, is a child of
\* the Modal: it is on screen when the tree has the Modal and isOpen is true
FailedListShown == OfflineIndicator.modal = <<TRUE>>

\* onClick of the failure alert
ClickFailedAlert ==
    /\ FailedAlertShown
    /\ showFailedModal' = TRUE
    /\ toast' = {}
    /\ UNCHANGED <<state, store, procs, hist, nextId, overlaps, reloads>>

----------------------------------------------------------------------------
(* Specifications *)

Step(during, among) ==
    \/ LoadQueue
    \/ LoadFailed
    \/ Reload(during, among)
    \/ \E d \in 1..MaxDrains : ManualSyncNow(d, during, among)
    \/ \E d \in 1..MaxDrains : handleOnline(d, during, among)
    \/ handleOffline(during, among)
    \/ \E d \in 1..MaxDrains : SyncNowEmpty(d)
    \/ \E d \in 1..MaxDrains : SyncNowBegin(d, among)
    \/ \E d \in 1..MaxDrains : ExecutorResolves(d, among)
    \/ \E d \in 1..MaxDrains : ExecutorRejects(d, among)
    \/ \E d \in 1..MaxDrains : AfterSetQueueDone(d)
    \/ \E d \in 1..MaxDrains : AfterSetQueueFailed(d, among)
    \/ \E d \in 1..MaxDrains : AfterSetFailed(d)
    \/ \E type \in CallTypes : EnqueueCall(type, during, among)
    \/ \E s \in 1..MaxSubmits, activityId \in Activities(among) :
          handleActivitySubmit(s, activityId, during, among)
    \/ \E s \in 1..MaxSubmits : addOfflineAction(s, among)
    \/ \E r \in 1..MaxRetryCalls, id \in ActionIds :
          retryFailedAction(r, id, during, among)
    \/ \E r \in 1..MaxRetryCalls : RetrySetFailed(r, among)
    \/ \E r \in 1..MaxRetryCalls, d \in 1..MaxDrains : RetrySyncNow(r, d, during)
    \/ \E id \in ActionIds : discardFailedAction(id, during, among)

\* any interleaving of the calls and of their steps
Next == Step(Calls, Calls)
Spec == Init /\ [][Next]_vars

\* one operation at a time: a call is made only when nothing is in flight
NextSeq == Step({}, {})
SpecSeq == Init /\ [][NextSeq]_vars

\* one drain at a time, the other calls interleaved with it and with each other
NextOne == Step(Calls \ Syncs, Calls)
SpecOne == Init /\ [][NextOne]_vars

\* syncNow called while a drain is running, the other calls made one at a time
NextOverlap == Step(Syncs, {})
SpecOverlap == Init /\ [][NextOverlap]_vars

\* handleActivitySubmit called while a drain is running or while another
\* call that is not a drain is in flight
NextSubmit == Step({"submit"}, {"submit"})
SpecSubmit == Init /\ [][NextSubmit]_vars

\* discardFailedAction called while a drain is running, the other calls made
\* one at a time
NextDiscard == Step({"discard"}, {})
SpecDiscard == Init /\ [][NextDiscard]_vars

\* one operation at a time, and a write to idb-keyval may fail
NextFault == Step({}, {"setFails"})
SpecFault == Init /\ [][NextFault]_vars

\* retryFailedAction called while a drain is running, the other calls made one
\* at a time
NextRetry == Step({"retry"}, {})
SpecRetry == Init /\ [][NextRetry]_vars

\* the online and offline events fired while a drain is running, the other
\* calls made one at a time
NextOnline == Step({"online", "offline"}, {})
SpecOnline == Init /\ [][NextOnline]_vars

\* one operation at a time, drains never overlapping, where the user may
\* retry once more
NextAgain == Step({}, {"retryAgain"})
SpecAgain == Init /\ [][NextAgain]_vars

\* retryFailedAction called at any time, also with an id that is not in
\* failedQueue, the other calls made one at a time
NextAbsent == Step({"retry"}, {"retry", "retryAbsent"})
SpecAbsent == Init /\ [][NextAbsent]_vars

\* addOfflineAction, retryFailedAction, discardFailedAction and the offline
\* event while a drain is running, the other calls made one at a time
NextDuring == Step({"enqueue", "retry", "discard", "offline"}, {})
SpecDuring == Init /\ [][NextDuring]_vars

\* one operation at a time, drains never overlapping, and the user clicking
\* the failure alert of OfflineIndicator whenever it is on screen
NextUI == Step({}, {}) \/ ClickFailedAlert
SpecUI == Init /\ [][NextUI]_vars

\* one operation at a time, drains never overlapping, where a write to
\* idb-keyval may fail, the getDoc of handleActivitySubmit may reject and
\* the user submits any activity
NextOffline == Step({}, {"setFails", "getDocFails", "anyActivity"})
SpecOffline == Init /\ [][NextOffline]_vars

----------------------------------------------------------------------------
(* Properties *)

Persisted(key) == idb[key].value
Suffix(q, n) == SubSeq(q, Len(q) - n + 1, Len(q))
Enqueued == 1..(nextId - 1)

\* What a drain owes its batch, from the outcome of each executor call:
\* the failures below the ceiling, in batch order, counted and annotated ...
RECURSIVE Requeued(_, _)
Requeued(batch, results) ==
    IF batch = <<>> THEN <<>>
    ELSE LET a == Head(batch)
             rest == Requeued(Tail(batch), Tail(results))
         IN  IF ~Head(results) /\ a.retryCount < 3
             THEN <<[a EXCEPT !.retryCount = a.retryCount + 1,
                              !.lastError = ErrorMessage]>> \o rest
             ELSE rest

\* ... and the failures at the ceiling, annotated only.
RECURSIVE Demoted(_, _)
Demoted(batch, results) ==
    IF batch = <<>> THEN <<>>
    ELSE LET a == Head(batch)
             rest == Demoted(Tail(batch), Tail(results))
         IN  IF ~Head(results) /\ a.retryCount >= 3
             THEN <<[a EXCEPT !.lastError = ErrorMessage]>> \o rest
             ELSE rest

\* C1 (as claimed): once the calls made so far have completed, whatever their
\* interleaving, every action id occurs at most once in pending followed by
\* dead-letter, in memory and in the persisted queues.
C1_UniqueIds ==
    Quiescent =>
        \A id \in ActionIds :
            /\ Occurrences(queue \o failedQueue, id) <= 1
            /\ Occurrences(Persisted(QUEUE_KEY) \o Persisted(FAILED_QUEUE_KEY), id) <= 1

\* C2 (as claimed): at most one drain is in progress at any time; a syncNow
\* called while a drain is running invokes no executor and writes nothing.
C2_OneDrain ==
    \A d, e \in 1..MaxDrains : (Active(d) /\ Active(e)) => d = e

\* C3 (as claimed): when a drain completes, the pending queue, in memory and
\* persisted, contains the actions enqueued while the drain was suspended on an
\* executor call, together with the failures the drain re-queued.
C3_EnqueuedDuringDrainKept ==
    [][\A d \in 1..MaxDrains :
          (/\ drains[d].pc \in {"setQueue", "setFailed"}
           /\ drains'[d].pc = "idle"
           /\ drains[d].during # {})
          => /\ drains[d].during \subseteq Ids(queue')
             /\ drains[d].during \subseteq Ids(idb'[QUEUE_KEY].value)
             /\ Ids(drains[d].remainingQueue) \subseteq Ids(queue')
             /\ Ids(drains[d].remainingQueue) \subseteq Ids(idb'[QUEUE_KEY].value)
      ]_vars

\* C4 (as claimed): a step of a drain leaves dead-letter unchanged, in memory
\* and persisted, except the step that appends the actions the drain has just
\* dead-lettered, in batch order, after the entries already there.
C4_DrainOnlyAppends ==
    [][\A d \in 1..MaxDrains :
          (Running(d) /\ drains'[d] # drains[d])
          => IF drains[d].pc = "setQueue" /\ drains[d].newFailed # <<>>
             THEN /\ failedQueue' = failedQueue \o drains[d].newFailed
                  /\ idb'[FAILED_QUEUE_KEY] =
                        Stored(Persisted(FAILED_QUEUE_KEY) \o drains[d].newFailed)
             ELSE /\ failedQueue' = failedQueue
                  /\ idb'[FAILED_QUEUE_KEY] = idb[FAILED_QUEUE_KEY]
      ]_vars

C6_DrainAlone ==
    [][\A d \in 1..MaxDrains :
          LET B == drains[d].stored.value
              R == drains'[d].results
              D == Demoted(B, drains[d].results)
          IN  /\ (drains[d].pc = "exec" /\ drains'[d].pc = "setQueue")
                 => /\ queue' = Requeued(B, R)
                    /\ idb'[QUEUE_KEY] = Stored(Requeued(B, R))
              /\ (drains[d].pc = "setQueue" /\ drains'[d] # drains[d])
                 => IF D = <<>>
                    THEN /\ failedQueue' = failedQueue
                         /\ idb'[FAILED_QUEUE_KEY] = idb[FAILED_QUEUE_KEY]
                         /\ drains'[d].pc = "idle"
                    ELSE /\ Len(failedQueue') >= Len(D)
                         /\ Suffix(failedQueue', Len(D)) = D
                         /\ idb'[FAILED_QUEUE_KEY] = Stored(failedQueue')
                         /\ queue' = Requeued(B, drains[d].results)
              /\ (drains[d].pc \in {"setQueue", "setFailed"}
                    /\ drains'[d].pc = "idle")
                 => \A i \in DOMAIN B :
                       drains[d].results[i]
                          => B[i].id \notin Ids(queue') \cup Ids(failedQueue')
      ]_vars

\* C7 (as claimed): once the calls made so far have completed, pendingCount is
\* the number of enqueued actions not yet executed successfully (or passed as
\* a success) nor dead-lettered.
C7_PendingCount ==
    Quiescent =>
        Len(queue) =
            Cardinality(Enqueued \ (succeeded \cup skipped \cup deadLettered))

\* C8 (as claimed): an action whose executor has succeeded is not in pending,
\* in memory or persisted, once the drain that executed it is over, and its
\* executor is never invoked again.
C8_SucceededNeverAgain ==
    /\ reinvoked = {}
    /\ NoDrain =>
          \A id \in succeeded :
              id \notin Ids(queue) \cup Ids(Persisted(QUEUE_KEY))

\* C9 (as claimed): retryFailedAction(id) takes the action out of dead-letter
\* and appends it to pending with retryCount 0 and no lastError, its other
\* fields unchanged; from then on the action is in dead-letter again only after
\* as many further failed drains as a freshly enqueued action needs.
C9_RetryRestartsBudget ==
    [][/\ \A id \in ActionIds :
             (retryCalls' = retryCalls + 1 /\ fails'[id] = 0 /\ id \in deadLettered)
             => /\ id \notin Ids(failedQueue')
                /\ Len(queue') = Len(queue) + 1
                /\ SubSeq(queue', 1, Len(queue)) = queue
                /\ queue'[Len(queue')] =
                      [Find(failedQueue, id) EXCEPT !.retryCount = 0,
                                                    !.lastError = NoError]
       /\ \A i \in DOMAIN failedQueue' :
             fails'[failedQueue'[i].id] = MAX_RETRIES + 1
      ]_vars

\* C10 (as claimed): an action removed by a completed discardFailedAction is
\* never again in pending or in dead-letter, in memory or persisted, and its
\* executor is never invoked again.
C10_DiscardedNeverAgain ==
    /\ invokedDiscarded = {}
    /\ \A id \in discarded :
          /\ id \notin Ids(queue) \cup Ids(failedQueue)
          /\ id \notin Ids(Persisted(QUEUE_KEY)) \cup Ids(Persisted(FAILED_QUEUE_KEY))

\* C11 (as claimed): when addOfflineAction returns, pending is pending as it
\* was before the call with the new action (fresh id, retryCount 0, no
\* lastError) appended last, the persisted pending sequence equals it, and
\* pendingCount has increased by exactly 1.
C11_EnqueueAppends ==
    [][nextId' = nextId + 1
       => /\ Len(queue') = Len(queue) + 1
          /\ SubSeq(queue', 1, Len(queue)) = queue
          /\ queue'[Len(queue')].id = nextId
          /\ queue'[Len(queue')].retryCount = 0
          /\ queue'[Len(queue')].lastError = NoError
          /\ idb'[QUEUE_KEY] = Stored(queue')
      ]_vars

\* C12 (as claimed): whenever no operation is in flight, the persisted
\* pending and dead-letter sequences (an absent key counting as empty) equal
\* the in-memory ones, so a reload reproduces the queues observable before it.
C12_StoreMirrorsMemory ==
    Quiescent =>
        /\ Persisted(QUEUE_KEY) = queue
        /\ Persisted(FAILED_QUEUE_KEY) = failedQueue

\* C13 (as claimed): at every point of a drain, every action of its batch
\* whose executor has not succeeded is in the persisted pending queue or in
\* the persisted dead-letter queue, so that stopping there loses no action.
C13_CrashLosesNothing ==
    \A d \in 1..MaxDrains :
        Active(d) =>
            \A i \in DOMAIN Batch(d) :
                (i > Len(drains[d].results) \/ ~drains[d].results[i])
                => Batch(d)[i].id \in Ids(Persisted(QUEUE_KEY))
                                        \cup Ids(Persisted(FAILED_QUEUE_KEY))

\* C14 (as claimed): a drain that has started ends by returning, never by
\* rejecting, and when it ends isSyncing is false and syncProgress is null,
\* whatever its executors did.
C14_DrainCompletes ==
    [][\A d \in 1..MaxDrains :
          (Active(d) /\ drains'[d].pc = "idle")
          => /\ isSyncing' = FALSE
             /\ syncProgress' = <<>>
             /\ rejected' = rejected
      ]_vars

\* C15 (as claimed): a drain treats an action whose type has no executor as a
\* failed attempt: it is not counted as a success, and it is kept, re-queued
\* in pending or dead-lettered.
C15_UnknownTypeFails ==
    \A d \in 1..MaxDrains :
        \A i \in DOMAIN drains[d].results :
            Batch(d)[i].type \notin ExecutorTypes
            => /\ ~drains[d].results[i]
               /\ Batch(d)[i].id \in Ids(drains[d].remainingQueue)
                                       \cup Ids(drains[d].newFailed)

\* The copy a drain has just recorded for the failed action at the position
\* it was awaiting: the last entry of remainingQueue or of newFailed.
Recorded(d) ==
    IF Len(drains'[d].remainingQueue) > Len(drains[d].remainingQueue)
    THEN drains'[d].remainingQueue[Len(drains'[d].remainingQueue)]
    ELSE drains'[d].newFailed[Len(drains'[d].newFailed)]

\* the awaited executor of drain d has just rejected
AttemptFailed(d) ==
    /\ drains[d].pc = "exec"
    /\ Running(d)'
    /\ Len(drains'[d].results) > Len(drains[d].results)
    /\ ~drains'[d].results[drains[d].index]

\* the smallest retryCount among the copies of id in q
MinRetryCount(q, id) ==
    CHOOSE n \in 0..(MAX_RETRIES + 1) :
        /\ \E i \in DOMAIN q : q[i].id = id /\ q[i].retryCount = n
        /\ \A i \in DOMAIN q : q[i].id = id => q[i].retryCount >= n

WritingOp ==
    IF nextId' # nextId THEN "addOfflineAction"
    ELSE IF \/ retryCalls' # retryCalls
            \/ \E r \in 1..MaxRetryCalls : retries[r].pc = "setQueue"
         THEN "retryFailedAction"
    ELSE IF \E d \in 1..MaxDrains : Running(d) /\ drains'[d] # drains[d]
         THEN "syncNow"
    ELSE "discardFailedAction"

\* C17: when a write to the store fails, nothing is stored, the promise of
\* the operation that issued it rejects, the call ends there (a drain takes
\* no further step, a retry starts no drain), and no success is reported.
C17_WriteFailurePropagates ==
    [][storeFailures' > storeFailures
       => /\ idb' = idb
          /\ WritingOp \in rejected'
          /\ rejected' \subseteq rejected \cup {WritingOp}
          /\ toast' \cap {"saved", "synced"} = {}
          /\ \A d \in 1..MaxDrains : drains[d].pc \in {"get", "idle"}
                                        \/ drains'[d].pc = "idle"
          /\ \A r \in 1..MaxRetryCalls : retries'[r].pc = "idle"
          /\ \A t \in 1..MaxSubmits : submits'[t].pc = "idle"
      ]_vars

\* C17 witness: a drain's write has failed and syncNow has rejected.
C17_Witness ==
    /\ storeFailures > 0
    /\ "syncNow" \in rejected
    /\ Quiescent

\* C18 (as claimed): an action enqueued while a drain was in progress and not
\* yet passed to its executor is, once the calls made so far have completed,
\* in the persisted pending queue, where the next drain will find it.
C18_MidDrainEnqueueExecuted ==
    Quiescent =>
        \A id \in midDrain \ (invoked \cup skipped) :
            id \in Ids(Persisted(QUEUE_KEY))

\* C19: an online event starts exactly one syncNow call, that of the listener,
\* and touches neither queue nor the store; an offline event sets isOnline to
\* false and changes neither queue, in memory or persisted, nor any drain.
C19_OnlineOffline ==
    [][/\ (~isOnline /\ isOnline')
          => /\ Cardinality({d \in 1..MaxDrains : drains'[d] # drains[d]}) = 1
             /\ \A d \in 1..MaxDrains :
                   drains'[d] # drains[d]
                   => /\ ~Running(d)
                      /\ drains'[d].pc = "get"
                      /\ drains'[d].stored = idb[QUEUE_KEY]
                      /\ drains'[d].trigger = "online"
             /\ UNCHANGED <<queue, failedQueue, idb>>
       /\ (isOnline /\ ~isOnline')
          => UNCHANGED <<queue, failedQueue, idb, drains, isSyncing,
                         syncProgress>>
      ]_vars

\* C19 witness: the drain an online event started is running and an offline
\* event has followed.
C19_Witness ==
    /\ ~isOnline
    /\ \E d \in 1..MaxDrains : Active(d) /\ drains[d].trigger = "online"

\* C20: an action moved back to pending by retryFailedAction while a drain is
\* in progress is not lost: once every call has completed it is in the pending
\* queue, or in the dead-letter queue, or its executor has succeeded (or the
\* user has discarded it).
C20_RetriedMidDrainKept ==
    Quiescent
    => \A id \in retriedMidDrain \ (succeeded \cup discarded) :
          id \in Ids(queue) \cup Ids(failedQueue)

\* C21 (as claimed): isSyncing is true only while a drain is running: it is
\* false once the control flow of every drain has ended, also when a drain's
\* write to the store has failed, and it is true while a drain is awaiting an
\* executor.
C21_SyncingIffDraining ==
    /\ NoDrain => ~isSyncing
    /\ (\E d \in 1..MaxDrains : drains[d].pc = "exec") => isSyncing

\* the executor of the action at a further position of the batch of drain d
\* is invoked in this step
Invokes(d) ==
    /\ drains'[d].pc = "exec"
    /\ drains[d].pc # "exec" \/ drains'[d].index # drains[d].index

\* C22: within one drain the executors are invoked one at a time in the order
\* of the batch: the executor of a later position is invoked only in the step
\* in which the call for the position before it settles, every earlier
\* position has then settled, and the failures kept for pending are in batch
\* order.
C22_OneAtATimeInBatchOrder ==
    [][\A d \in 1..MaxDrains :
          /\ Invokes(d)
             => /\ drains'[d].index > drains[d].index
                /\ Len(drains'[d].results) = drains'[d].index - 1
                /\ drains[d].pc = "exec"
                      => Len(drains'[d].results) > Len(drains[d].results)
                /\ \A i \in (drains[d].index + 1)..(drains'[d].index - 1) :
                      Batch(d)[i].type \notin ExecutorTypes
                /\ drains'[d].stored = drains[d].stored
          /\ Active(d)'
             => drains'[d].remainingQueue =
                   Requeued(SubSeq(drains'[d].stored.value, 1,
                                   Len(drains'[d].results)),
                            drains'[d].results)
      ]_vars

\* C22 witness: a drain has attempted a batch of two actions with executors,
\* both calls failed and both actions are kept for pending.
C22_Witness ==
    \E d \in 1..MaxDrains :
        /\ drains[d].pc = "setQueue"
        /\ Len(Batch(d)) = 2
        /\ drains[d].results = <<FALSE, FALSE>>
        /\ Ids(drains[d].remainingQueue) = {1, 2}
        /\ \A i \in 1..2 : Batch(d)[i].type \in ExecutorTypes

\* C23: the batch of a drain is the persisted pending sequence as it is when
\* syncNow issues its get; it does not change while the drain runs, an action
\* enqueued after the read is not in it, and every executor the drain invokes
\* is that of an action of the batch.
C23_BatchIsSnapshot ==
    [][\A d \in 1..MaxDrains :
          /\ (~Running(d) /\ Running(d)')
             => /\ drains'[d].pc = "get"
                /\ drains'[d].stored = idb[QUEUE_KEY]
          /\ (Running(d) /\ Running(d)')
             => drains'[d].stored = drains[d].stored
          /\ (Running(d) /\ nextId' # nextId)
             => /\ nextId \notin Ids(Batch(d))
                /\ ~Invokes(d)
          /\ Invokes(d)
             => invoked' = invoked \cup {Batch(d)[drains'[d].index].id}
      ]_vars

\* C23 witness: a drain has passed its whole batch, an action was enqueued
\* while it awaited an executor, and no executor was invoked for that action.
C23_Witness ==
    \E d \in 1..MaxDrains :
        /\ drains[d].pc = "setQueue"
        /\ drains[d].during # {}
        /\ drains[d].during \cap (invoked \cup Ids(Batch(d))) = {}

\* drain d moves on in this step
DrainStep(d) ==
    \/ drains'[d].pc # drains[d].pc
    \/ drains'[d].index # drains[d].index
    \/ drains'[d].results # drains[d].results

\* the step is the call of addOfflineAction, retryFailedAction or
\* discardFailedAction, or the offline event
OtherCall ==
    \/ nextId' # nextId
    \/ retryCalls' # retryCalls
    \/ discarded' # discarded
    \/ isOnline /\ ~isOnline'

\* C24: a drain passes every position of its batch exactly once: after a
\* failed attempt it goes on with the next position, it reaches its write of
\* pending only with one result per position, it ends only after that write,
\* and a call of enqueue, retry or discard or an offline event leaves the drain
\* where it is.
C24_WholeBatchOnce ==
    [][\A d \in 1..MaxDrains :
          Active(d) =>
             /\ Running(d)' \/ drains[d].pc \in {"setQueue", "setFailed"}
             /\ Invokes(d)
                => /\ drains'[d].index > drains[d].index
                   /\ Len(drains'[d].results) = drains'[d].index - 1
             /\ (drains[d].pc = "exec" /\ DrainStep(d))
                => /\ Len(drains'[d].results) > Len(drains[d].results)
                   /\ \/ Invokes(d)
                      \/ /\ drains'[d].pc = "setQueue"
                         /\ Len(drains'[d].results) = Len(Batch(d))
             /\ OtherCall => ~DrainStep(d) /\ drains'[d].stored = drains[d].stored
      ]_vars

\* C24 witness: the first call of a batch of two failed, the second was made,
\* and the drain has reached its write while the connection was lost meanwhile.
C24_Witness ==
    \E d \in 1..MaxDrains :
        /\ drains[d].pc = "setQueue"
        /\ Len(drains[d].results) = 2
        /\ ~drains[d].results[1]
        /\ Batch(d)[2].type \in ExecutorTypes
        /\ drains[d].trigger = "online"
        /\ ~isOnline

\* the ids retry call r has taken out of dead-letter
RetriedBy(r) == Ids(retries[r].failedQueue) \ Ids(retries[r].newFailedQueue)

\* C25 (as claimed): when retryFailedAction calls syncNow, both of its writes
\* have been made, the batch the drain reads contains the retried action, and
\* the retry returns while that drain has only issued its read.
C25_RetryDrainSeesAction ==
    [][\A r \in 1..MaxRetryCalls :
          (retries[r].pc = "setFailed" /\ retries'[r].pc = "idle"
             /\ reloads' = reloads)
          => \E d \in 1..MaxDrains :
                /\ ~Running(d)
                /\ drains'[d].pc = "get"
                /\ drains'[d].trigger = "retry"
                /\ RetriedBy(r) \subseteq Ids(drains'[d].stored.value)
      ]_vars

\* C26 (as claimed): once the startup load and the one enqueue made since
\* mount, before the load had completed, are both over, pending, in memory and
\* persisted, contains every action that was persisted at mount and the new
\* one (those a drain has since passed or a discard removed aside).
C26_EarlyEnqueueKeepsPersisted ==
    (Quiescent /\ early # {} /\ nextId = loader.firstId + 1)
    => \A id \in (loader.atMount \cup early)
                    \ (invoked \cup skipped \cup discarded) :
          /\ id \in Ids(queue)
          /\ id \in Ids(Persisted(QUEUE_KEY))

\* C27: retryFailedAction with an id that is not in the dead-letter queue
\* changes neither queue, writes nothing to the store, starts no drain and
\* leaves every call in flight where it is.
C27_RetryAbsentIsNoOp ==
    [][absent' # absent
       => /\ \A id \in absent' \ absent : id \notin Ids(failedQueue)
          /\ UNCHANGED <<queue, failedQueue, idb, storeFailures, rejected,
                         drains, retries, isSyncing, syncProgress, invoked,
                         overlaps>>
          /\ toast' = {}
      ]_vars

\* C27 witness: retryFailedAction was called with an id that is not in a
\* non-empty dead-letter queue, while a drain was awaiting an executor.
C27_Witness ==
    /\ absent # {}
    /\ failedQueue # <<>>
    /\ absent \cap Ids(failedQueue) = {}
    /\ \E d \in 1..MaxDrains : drains[d].pc = "exec"

\* the step is a call of discardFailedAction that has an effect: of the steps
\* that change the dead-letter queue or its persisted copy, the only one that
\* is not a step of loadQueues, of a drain or of a retry
DiscardStep ==
    /\ \/ failedQueue' # failedQueue
       \/ idb'[FAILED_QUEUE_KEY] # idb[FAILED_QUEUE_KEY]
       \/ discarded' # discarded
    /\ procs' = procs
    /\ retryCalls' = retryCalls
    /\ reloads' = reloads

\* C28: discardFailedAction(id) removes the entries with that id from the
\* dead-letter queue and keeps the others in their order, stores the result
\* under FAILED_QUEUE_KEY, and leaves the pending queue, in memory and
\* persisted, as it is; for an id that is not in dead-letter the contents of
\* dead-letter are unchanged.
C28_DiscardRemovesOne ==
    [][DiscardStep
       => \E id \in ActionIds :
             /\ failedQueue' = SelectSeq(failedQueue, LAMBDA a : a.id # id)
             /\ id \notin Ids(failedQueue) => failedQueue' = failedQueue
             /\ idb'[FAILED_QUEUE_KEY] = Stored(failedQueue')
             /\ discarded' = discarded \cup ({id} \cap Ids(failedQueue))
             /\ queue' = queue
             /\ idb'[QUEUE_KEY] = idb[QUEUE_KEY]
      ]_vars

\* C28 witness: one of two dead-lettered actions has been discarded and the
\* other one is still in the dead-letter queue, in memory and persisted.
C28_Witness ==
    /\ discarded # {}
    /\ failedQueue # <<>>
    /\ Ids(failedQueue) \cap discarded = {}
    /\ Persisted(FAILED_QUEUE_KEY) = failedQueue
    /\ Quiescent

\* C29: a syncNow call whose get finds the persisted pending queue absent or
\* empty returns at once: it invokes no executor, writes nothing to the store,
\* leaves both queues, isSyncing and syncProgress as they are, shows no toast
\* and does not reject.
C29_EmptySyncIsNoOp ==
    [][\A d \in 1..MaxDrains :
          (/\ drains[d].pc = "get"
           /\ ~drains[d].stored.defined \/ Len(Batch(d)) = 0
           /\ drains'[d] # drains[d])
          => /\ drains'[d].pc = "idle"
             /\ UNCHANGED <<queue, failedQueue, idb, storeFailures, rejected,
                            isSyncing, syncProgress, invoked, skipped,
                            succeeded, fails>>
             /\ toast' = {}
      ]_vars

\* C29 witness: one syncNow call is in flight, its get has found the persisted
\* pending queue empty after an earlier drain emptied it, and nothing is
\* syncing.
C29_Witness ==
    /\ \E d \in 1..MaxDrains :
          /\ drains[d].pc = "get"
          /\ drains[d].stored = Stored(<<>>)
          /\ \A e \in 1..MaxDrains : e # d => ~Running(e)
    /\ succeeded # {}
    /\ ~isSyncing
    /\ queue = <<>>

\* C30 (as claimed): while a drain is in progress syncProgress.total is the
\* size of its batch and does not change, syncProgress.current is the position
\* of the action being attempted, never decreases and is between 0 and total;
\* syncProgress is null whenever no drain is in progress.
C30_ProgressFollowsDrain ==
    [][/\ \A d \in 1..MaxDrains :
             /\ Active(d)'
                => /\ syncProgress' # <<>>
                   /\ syncProgress'[1].total = Len(drains'[d].stored.value)
                   /\ syncProgress'[1].current \in 0..syncProgress'[1].total
                   /\ drains'[d].pc = "exec"
                         => syncProgress'[1].current = drains'[d].index
             /\ (Active(d) /\ Active(d)' /\ syncProgress # <<>>)
                => /\ syncProgress'[1].total = syncProgress[1].total
                   /\ syncProgress'[1].current >= syncProgress[1].current
       /\ ~Draining' => syncProgress' = <<>>
      ]_vars

\* the number of positions of the batch of drain d whose executor resolved
ExecutorSuccesses(d) ==
    Cardinality({i \in DOMAIN drains[d].results :
                    /\ drains[d].results[i]
                    /\ Batch(d)[i].type \in ExecutorTypes})

\* C31 (as claimed): when a drain ends, the success count it reports is the
\* number of actions of its batch whose executor succeeded, it reports as
\* permanent failures the number of actions it has moved to dead-letter, and
\* successes + actions re-queued + actions dead-lettered = batch size.
C31_ReportedCounts ==
    [][\A d \in 1..MaxDrains :
          (drains[d].pc \in {"setQueue", "setFailed"} /\ drains'[d].pc = "idle"
             /\ reloads' = reloads)
          => /\ drains[d].successCount = ExecutorSuccesses(d)
             /\ ("synced" \in toast') = (ExecutorSuccesses(d) > 0)
             /\ ("failed" \in toast') = (Len(drains[d].newFailed) > 0)
             /\ drains[d].successCount + Len(drains[d].remainingQueue)
                   + Len(drains[d].newFailed) = Len(Batch(d))
      ]_vars

\* C32: every action in the pending queue, in memory and persisted, has a
\* lastError exactly when its retryCount is above 0, and every action in the
\* dead-letter queue, in memory and persisted, has a lastError.
C32_LastErrorIffFailed ==
    /\ \A q \in {queue, Persisted(QUEUE_KEY)} :
          \A i \in DOMAIN q : (q[i].lastError # NoError) = (q[i].retryCount > 0)
    /\ \A q \in {failedQueue, Persisted(FAILED_QUEUE_KEY)} :
          \A i \in DOMAIN q : q[i].lastError # NoError

\* C32 witness: an action taken back by retry is pending with retryCount 0
\* and no lastError while another one is in the dead-letter queue.
C32_Witness ==
    /\ \E i \in DOMAIN queue :
          /\ queue[i].id \in retried
          /\ queue[i].retryCount = 0
          /\ queue[i].lastError = NoError
    /\ \E i \in DOMAIN failedQueue : failedQueue[i].id \notin retried

\* C33: every action in the pending or in the dead-letter queue, in memory
\* and persisted, has a retryCount between 0 and MAX_RETRIES; every action a
\* drain keeps for pending has one between 1 and MAX_RETRIES, and every action
\* a drain moves to dead-letter has retryCount MAX_RETRIES exactly.
C33_RetryCountBounded ==
    /\ \A q \in {queue, failedQueue, Persisted(QUEUE_KEY),
                 Persisted(FAILED_QUEUE_KEY)} :
          \A i \in DOMAIN q : q[i].retryCount \in 0..MAX_RETRIES
    /\ \A d \in 1..MaxDrains :
          /\ \A i \in DOMAIN drains[d].remainingQueue :
                drains[d].remainingQueue[i].retryCount \in 1..MAX_RETRIES
          /\ \A i \in DOMAIN drains[d].newFailed :
                drains[d].newFailed[i].retryCount = MAX_RETRIES

\* C33 witness: one drain has moved two actions to dead-letter and written
\* them, each with retryCount MAX_RETRIES.
C33_Witness ==
    \E d \in 1..MaxDrains :
        /\ drains[d].pc = "setFailed"
        /\ Len(drains[d].newFailed) = 2
        /\ failedQueue = drains[d].newFailed
        /\ Persisted(FAILED_QUEUE_KEY) = failedQueue
        /\ \A i \in DOMAIN failedQueue : failedQueue[i].retryCount = MAX_RETRIES

\* C34 (as claimed): with drains that never overlap and no reload, an
\* action's executor fails at most MAX_RETRIES + 1 times after the action has
\* entered pending with retryCount 0, by enqueue or by retry, and the executor
\* of an action a drain has dead-lettered is not invoked again unless a retry
\* takes the action back.
C34_AtMostFourAttempts ==
    [][reloads' = 0
       => /\ \A id \in ActionIds : fails'[id] <= MAX_RETRIES + 1
          /\ \A d \in 1..MaxDrains :
                Invokes(d) => Batch(d)[drains'[d].index].id \notin deadLettered
      ]_vars

\* C35 (as claimed): whenever the dead-letter queue is non-empty, either the
\* failure alert is on screen, so that the user can open the failed-items
\* list from it, or the user has opened the list and the list is on screen,
\* with its retry and discard buttons.
C35_FailedListReachable ==
    Len(failedQueue) > 0
    => IF showFailedModal THEN FailedListShown ELSE FailedAlertShown

\* C36 (as claimed): when a call of handleActivitySubmit made offline returns,
\* it has appended exactly one action to the pending queue, of type
\* SUBMIT_ACTIVITY, whose payload carries the activityId and the content of
\* the call and the id and the name of the user; no executor has been invoked;
\* the promise of handleActivitySubmit has not rejected; and a failed write of
\* the queue is reported by the error toast, a successful one by the info
\* toast.
C36_OfflineSubmitEnqueues ==
    [][\A s \in 1..MaxSubmits :
          (submits[s].pc = "getDoc" /\ submits'[s].pc = "idle"
           /\ reloads' = reloads)
          => /\ Len(queue') = Len(queue) + 1
             /\ SubSeq(queue', 1, Len(queue)) = queue
             /\ LET newAction == queue'[Len(queue')]
                IN  /\ newAction.id = nextId
                    /\ newAction.type = "SUBMIT_ACTIVITY"
                    /\ newAction.retryCount = 0
                    /\ newAction.payload.activityId = submits[s].activityId
                    /\ newAction.payload.content = Content
                    /\ newAction.payload.user = User
             /\ invoked' = invoked
             /\ "handleActivitySubmit" \notin rejected'
             /\ toast' = IF storeFailures' = storeFailures
                         THEN {"saved"} ELSE {"saveError"}
      ]_vars

====
